---- MODULE Spec2Model ----
(***************************************************************************)
(* Model of the debt-qualification voice bot: the conversation engine of   *)
(* conversation.py (per-call state machine, slot merge, persistence) and   *)
(* the resilient voice-platform client of source/livekit_client.py (token  *)
(* cache and circuit breaker).                                             *)
(***************************************************************************)
EXTENDS Integers, Sequences, FiniteSets, TLC

VARIABLES
    circuit,      \* _circuit_state['livekit_api']: status, failures, last_failure
    tokenCache,   \* _token_cache: permission scope -> cached token or NoToken
    now,          \* time.time(), in seconds
    creds,        \* TRUE iff LIVEKIT_API_KEY and LIVEKIT_API_SECRET are set
    req,          \* the make_api_request call in progress, or the last one made
    streak,       \* failures recorded since the last successful request
    callTable,    \* the calls table: the call record of the call, if any
    customerTable,\* the customer-info table: the profile of the call, if any
    transcripts,  \* the transcripts table: entries of the call, oldest first
    handoffs,     \* number of invocations of the transfer function
    turn,         \* observation of the last transcript request handled
    turns,        \* number of transcript requests handled
    fn,           \* function harness: inputs and results of one application
    callers,      \* concurrent callers of the client: where each one stands
    tokenCall,    \* observation of the last create_jwt_token call
    spoken,       \* observation of the last speak_response call
    jobs,         \* handler invocations in progress: the records each one read
    room          \* observation of the last initialize_conversation call

clientVars == <<circuit, tokenCache, now, creds, req, streak>>

storeVars == <<callTable, customerTable, transcripts, handoffs, turn, turns, jobs,
               room>>

vars == <<circuit, tokenCache, now, creds, req, streak,
          callTable, customerTable, transcripts, handoffs, turn, turns, fn,
          callers, tokenCall, spoken, jobs, room>>

----------------------------------------------------------------------------
(* Bounds of the model *)

MaxTime == 120
MaxFailures == 6
TickStep == 30
MaxTurns == 5
MaxCallTurns == 7
MaxProgressTurns == 11

(* Program constants *)

threshold == 5
timeout == 60
TokenLifetime == 3600
TokenBuffer == 300
total == 3

----------------------------------------------------------------------------
(* Resilient service client: source/livekit_client.py *)

NoToken == [present |-> FALSE, nbf |-> 0, expiry |-> 0]

Scopes == {"video", "sip", "video_sip"}

\* The public operations and the endpoint each one posts to.
Operations == {"get_room", "speak_text", "get_dispatch_rules"}

\* get_permissions_for_endpoint: the substring tests "rooms", "add_sip", "sip"
\* are case sensitive, so the TWIRP endpoints (RoomService/CreateRoom,
\* CreateSIPParticipant, ...) match none of them and get the default scope.
get_permissions_for_endpoint(op) ==
    CASE op = "speak_text" -> "video"
      [] op = "get_dispatch_rules" -> "sip"
      [] OTHER -> "video_sip"

\* create_jwt_token with the reuse test taken at the buffer itself.
create_jwt_token_at_buffer(scope, cache, t, haveCreds) ==
    IF cache[scope].present /\ cache[scope].expiry >= t + TokenBuffer
    THEN [ok |-> TRUE, token |-> cache[scope], cache |-> cache]
    ELSE IF ~haveCreds
    THEN [ok |-> FALSE, token |-> NoToken, cache |-> cache]
    ELSE LET tok == [present |-> TRUE, nbf |-> t, expiry |-> t + TokenLifetime]
         IN [ok |-> TRUE, token |-> tok, cache |-> [cache EXCEPT ![scope] = tok]]

\* create_jwt_token: returns <<ok, token, cache'>>.
create_jwt_token(scope, cache, t, haveCreds) ==
    IF cache[scope].present /\ cache[scope].expiry > t + TokenBuffer
    THEN [ok |-> TRUE, token |-> cache[scope], cache |-> cache]
    ELSE IF ~haveCreds
    THEN [ok |-> FALSE, token |-> NoToken, cache |-> cache]
    ELSE LET tok == [present |-> TRUE, nbf |-> t, expiry |-> t + TokenLifetime]
         IN [ok |-> TRUE, token |-> tok, cache |-> [cache EXCEPT ![scope] = tok]]

\* The transport's answer to one request: an HTTP status, or an exception
\* (connection error, the 10 s timeout, retries exhausted).
Responses == {[kind |-> "status", code |-> 200], [kind |-> "status", code |-> 404],
              [kind |-> "exception", code |-> 0]}

IsSuccess(resp) == resp.kind = "status" /\ resp.code \in {200, 201}

\* Lines 262-268 and 275-281: record a failure for the circuit breaker.
record_failure(c, t) ==
    LET f == c.failures + 1
    IN [status |-> IF f >= threshold /\ c.status # "OPEN" THEN "OPEN" ELSE c.status,
        failures |-> f,
        last_failure |-> t]

circuit_gate_at_timeout(c, t) ==
    IF c.status = "OPEN"
    THEN IF t - c.last_failure >= timeout
         THEN [rejected |-> FALSE, circuit |-> [c EXCEPT !.status = "HALF-OPEN"]]
         ELSE [rejected |-> TRUE, circuit |-> c]
    ELSE [rejected |-> FALSE, circuit |-> c]

\* Lines 202-212: the gate in front of every request.
circuit_gate(c, t) ==
    IF c.status = "OPEN"
    THEN IF t - c.last_failure > timeout
         THEN [rejected |-> FALSE, circuit |-> [c EXCEPT !.status = "HALF-OPEN"]]
         ELSE [rejected |-> TRUE, circuit |-> c]
    ELSE [rejected |-> FALSE, circuit |-> c]

record_success_keeps_count(c) ==
    IF c.status = "HALF-OPEN"
    THEN [c EXCEPT !.status = "CLOSED"]
    ELSE c

\* Lines 246-251: a 200/201 answer closes a HALF-OPEN breaker.
record_success(c) ==
    IF c.status = "HALF-OPEN"
    THEN [c EXCEPT !.status = "CLOSED", !.failures = 0]
    ELSE c

\* make_api_request, lines 199-229: the breaker gate and the token, up to
\* the point where the HTTP request is sent. Returns the new breaker, the new
\* token cache and how far the call got.
begin_request(op, c, cache, t, haveCreds) ==
    LET gate == circuit_gate(c, t)
        tok == create_jwt_token(get_permissions_for_endpoint(op), cache, t, haveCreds)
    IN IF gate.rejected
       THEN [circuit |-> c, cache |-> cache, gated |-> c.status,
             outcome |-> "rejected", result |-> "circuit_open"]
       ELSE IF ~tok.ok
       THEN [circuit |-> record_failure(gate.circuit, t), cache |-> tok.cache,
             gated |-> gate.circuit.status,
             outcome |-> "failure", result |-> "error"]
       ELSE [circuit |-> gate.circuit, cache |-> tok.cache,
             gated |-> gate.circuit.status,
             outcome |-> "pending", result |-> "none"]

\* make_api_request, lines 245-283: the transport has answered (or raised).
complete_request(resp, c, t) ==
    IF IsSuccess(resp)
    THEN [circuit |-> record_success(c), outcome |-> "success", result |-> "success"]
    ELSE [circuit |-> record_failure(c, t), outcome |-> "failure",
          result |-> IF resp.kind = "status" THEN "error_code" ELSE "error"]

NoCircuit == [status |-> "CLOSED", failures |-> 0, last_failure |-> 0]

NoReq == [phase |-> "none", outcome |-> "none", http |-> FALSE, result |-> "none",
          pre |-> NoCircuit, gated |-> "CLOSED", preStreak |-> 0, at |-> 0, doneAt |-> 0,
          attempts |-> <<>>]

StreakAfter(outcome, n) ==
    CASE outcome = "failure" -> n + 1
      [] outcome = "success" -> 0
      [] OTHER -> n

InitClient ==
    /\ circuit = NoCircuit
    /\ tokenCache = [s \in Scopes |-> NoToken]
    /\ now = 0
    /\ creds \in BOOLEAN
    /\ req = NoReq
    /\ streak = 0

\* A caller invokes a public operation of the client; callers are served one
\* at a time.
BeginRequest ==
    /\ req.phase # "inflight"
    /\ \E op \in Operations :
        LET r == begin_request(op, circuit, tokenCache, now, creds)
        IN /\ r.circuit.failures <= MaxFailures
           /\ circuit' = r.circuit
           /\ tokenCache' = r.cache
           /\ req' = [phase |-> IF r.outcome = "pending" THEN "inflight" ELSE "done",
                      outcome |-> r.outcome, http |-> r.outcome = "pending",
                      result |-> r.result, pre |-> circuit, gated |-> r.gated,
                      preStreak |-> streak, at |-> now, doneAt |-> now,
                      attempts |-> <<>>]
           /\ streak' = StreakAfter(r.outcome, streak)
    /\ UNCHANGED <<now, creds, storeVars, fn, callers, tokenCall, spoken>>

\* The HTTP exchange of the call in progress ends.
CompleteRequest ==
    /\ req.phase = "inflight"
    /\ \E resp \in Responses :
        LET r == complete_request(resp, circuit, now)
        IN /\ r.circuit.failures <= MaxFailures
           /\ circuit' = r.circuit
           /\ req' = [req EXCEPT !.phase = "done", !.outcome = r.outcome,
                                 !.result = r.result, !.doneAt = now]
           /\ streak' = StreakAfter(r.outcome, streak)
    /\ UNCHANGED <<tokenCache, now, creds, storeVars, fn, callers, tokenCall, spoken>>

\* Time passes, between requests and while one is in progress.
Tick ==
    /\ now + TickStep <= MaxTime
    /\ now' = now + TickStep
    /\ UNCHANGED <<circuit, tokenCache, creds, req, streak, storeVars, fn, callers, tokenCall, spoken>>

\* A whole make_api_request call in one step, for the handlers that call the
\* client in the middle of their own work.
AtomicRequest(op, resp) ==
    LET b == begin_request(op, circuit, tokenCache, now, creds)
        c == complete_request(resp, b.circuit, now)
        outcome == IF b.outcome = "pending" THEN c.outcome ELSE b.outcome
    IN /\ circuit' = IF b.outcome = "pending" THEN c.circuit ELSE b.circuit
       /\ tokenCache' = b.cache
       /\ req' = [phase |-> "done", outcome |-> outcome,
                  http |-> b.outcome = "pending",
                  result |-> IF b.outcome = "pending" THEN c.result ELSE b.result,
                  pre |-> circuit, gated |-> b.gated,
                  preStreak |-> streak, at |-> now, doneAt |-> now,
                      attempts |-> <<>>]
       /\ streak' = StreakAfter(outcome, streak)

\* The times at which the token cache is looked at: 10 minutes, 55 minutes,
\* 59 minutes and 65 minutes after the start.
TokenClock == {0, 600, 3300, 3540, 3900}

NoTokenCall == [made |-> FALSE, scope |-> "video", at |-> 0, ok |-> FALSE,
                token |-> NoToken, pre |-> [s \in Scopes |-> NoToken]]

\* create_jwt_token(get_permissions_for_endpoint(endpoint)), line 216, for the
\* endpoint of one of the client's operations.
RequestToken ==
    /\ \E op \in Operations :
        \E r \in {create_jwt_token(get_permissions_for_endpoint(op),
                                   tokenCache, now, creds)} :
           /\ tokenCache' = r.cache
           /\ tokenCall' = [made |-> TRUE, scope |-> get_permissions_for_endpoint(op),
                            at |-> now, ok |-> r.ok, token |-> r.token,
                            pre |-> tokenCache]
    /\ UNCHANGED <<circuit, now, creds, req, streak, storeVars, fn, callers, spoken>>

\* Time passes between two token requests.
Elapse ==
    /\ \E t \in TokenClock : t > now /\ now' = t
    /\ UNCHANGED <<circuit, tokenCache, creds, req, streak, storeVars, fn, callers,
                   tokenCall, spoken>>

\* Callers that share the module-level breaker and token cache from threads of
\* one process. The module takes no lock, so calls interleave between the gate
\* with the token (lines 199-229) and the handling of the answer (245-283).
Callers == {"t1", "t2"}

IdleCaller == [pc |-> "idle", trial |-> FALSE, duringTrial |-> FALSE, seen |-> 0]

\* A trial request is in progress: the request that moved the breaker from
\* OPEN to HALF-OPEN has been sent and not answered.
TrialUnresolved == \E u \in Callers : callers[u].pc = "inflight" /\ callers[u].trial

\* Caller t enters make_api_request: gate and token, then the request is sent.
CallerBegin(t) ==
    /\ callers[t].pc = "idle"
    /\ \E op \in Operations :
        \E r \in {begin_request(op, circuit, tokenCache, now, creds)} :
           /\ r.circuit.failures <= MaxFailures
           /\ circuit' = r.circuit
           /\ tokenCache' = r.cache
           /\ callers' = [callers EXCEPT ![t] =
                             IF r.outcome = "pending"
                             THEN [pc |-> "inflight",
                                   trial |-> circuit.status = "OPEN",
                                   duringTrial |-> TrialUnresolved, seen |-> 0]
                             ELSE IdleCaller]
    /\ UNCHANGED <<now, creds, req, streak, storeVars, fn, tokenCall, spoken>>

\* The transport answers caller t, which records the outcome and returns.
CallerComplete(t) ==
    /\ callers[t].pc = "inflight"
    /\ \E resp \in Responses :
        \E r \in {complete_request(resp, circuit, now)} :
           /\ r.circuit.failures <= MaxFailures
           /\ circuit' = r.circuit
           /\ callers' = [callers EXCEPT ![t] = IdleCaller]
    /\ UNCHANGED <<tokenCache, now, creds, req, streak, storeVars, fn, tokenCall, spoken>>

\* The transport answers caller t. On a 200/201 answer the caller runs lines
\* 246-254 and returns. On any other answer, or an exception, it comes to the
\* statement circuit['failures'] += 1 (lines 262 and 275), which reads the
\* counter, adds one and stores the sum as separate steps of the interpreter:
\* here the counter is read.
CallerAnswer(t) ==
    /\ callers[t].pc = "inflight"
    /\ \E resp \in Responses :
          IF IsSuccess(resp)
          THEN /\ circuit' = record_success(circuit)
               /\ callers' = [callers EXCEPT ![t] = IdleCaller]
          ELSE /\ callers' = [callers EXCEPT ![t].pc = "failed",
                                             ![t].seen = circuit.failures]
               /\ UNCHANGED circuit
    /\ UNCHANGED <<tokenCache, now, creds, req, streak, storeVars, fn, tokenCall, spoken>>

\* Caller t stores the counter it read plus one, then runs lines 263-268 (or
\* 276-281): last_failure and the threshold test.
CallerRecordFailure(t) ==
    /\ callers[t].pc = "failed"
    /\ callers[t].seen < MaxFailures
    /\ circuit' = record_failure([circuit EXCEPT !.failures = callers[t].seen], now)
    /\ callers' = [callers EXCEPT ![t] = IdleCaller]
    /\ UNCHANGED <<tokenCache, now, creds, req, streak, storeVars, fn, tokenCall, spoken>>

\* The mapping make_api_request returns, by the way the call ended: the
\* rejection of line 212, the error answers of lines 270 and 283, and what
\* parse_response makes of a 200/201 answer.
api_result(result) ==
    CASE result = "circuit_open" ->
            [status |-> "error", error |-> "Service temporarily unavailable",
             circuit |-> "OPEN"]
      [] result = "error_code" ->
            [status |-> "error", error |-> "API request failed", code |-> 404]
      [] result = "error" -> [status |-> "error", error |-> "exception"]
      [] OTHER -> [status |-> "success"]

NoSpoken == [made |-> FALSE, response |-> [status |-> "none"], returned |-> FALSE]

\* conversation.speak_response, lines 442-452: True unless speak_text raises;
\* the mapping speak_text returns is logged and not looked at.
speak_response(response, raised) == ~raised

\* speak_response(room_name, text) as the handlers call it (lines 529 and
\* 596): livekit_client.speak_text is make_api_request on the room's TTS
\* endpoint, which returns a mapping in every case and does not raise.
SpeakResponse(resp) ==
    /\ AtomicRequest("speak_text", resp)
    /\ \E b \in {begin_request("speak_text", circuit, tokenCache, now, creds)} :
       \E response \in {api_result(IF b.outcome = "pending"
                                    THEN complete_request(resp, b.circuit, now).result
                                    ELSE b.result)} :
          spoken' = [made |-> TRUE, response |-> response,
                     returned |-> speak_response(response, FALSE)]

\* The engine speaks outside of a turn: the greeting of handle_webhook.
Speak ==
    /\ \E resp \in Responses : SpeakResponse(resp)
    /\ circuit'.failures <= MaxFailures
    /\ UNCHANGED <<now, creds, storeVars, fn, callers, tokenCall>>

\* The retry policy mounted on the session, lines 50-56: the statuses that are
\* retried.
status_forcelist == {429, 502, 503, 504}

\* What the voice platform does with one attempt: it answers with a status,
\* or nothing comes back within the 10 s timeout of lines 236-238.
AttemptAnswers ==
    {[kind |-> "status", code |-> 200], [kind |-> "status", code |-> 404],
     [kind |-> "status", code |-> 503], [kind |-> "timeout", code |-> 0]}

Transient(a) == a.kind = "timeout" \/ a.code \in status_forcelist

\* A transport that retries the listed statuses and lets a timeout through to
\* the caller at once.
RECURSIVE session_send_timeout_raises(_, _, _)
session_send_timeout_raises(answers, i, retries) ==
    IF answers[i].kind = "timeout"
    THEN [response |-> [kind |-> "exception", code |-> 0], sent |-> i]
    ELSE IF ~Transient(answers[i])
    THEN [response |-> answers[i], sent |-> i]
    ELSE IF retries = 0
    THEN [response |-> [kind |-> "exception", code |-> 0], sent |-> i]
    ELSE session_send_timeout_raises(answers, i + 1, retries - 1)

\* session.get / session.post, lines 235-238, through the adapter mounted at
\* line 56 with Retry(total=3, status_forcelist=..., allowed_methods GET and
\* POST): attempt i is sent; a status outside the list is the response; a
\* listed status or a timeout is retried while retries are left, and raises
\* once they are used up.
RECURSIVE session_send(_, _, _)
session_send(answers, i, retries) ==
    IF ~Transient(answers[i])
    THEN [response |-> answers[i], sent |-> i]
    ELSE IF retries = 0
    THEN [response |-> [kind |-> "exception", code |-> 0], sent |-> i]
    ELSE session_send(answers, i + 1, retries - 1)

\* Nobody is calling the client and nothing was asked of it yet.
InitCallersIdle ==
    /\ callers = [t \in Callers |-> IdleCaller]
    /\ tokenCall = NoTokenCall
    /\ spoken = NoSpoken

----------------------------------------------------------------------------
(* Conversation engine: conversation.py *)

\* Python dictionaries are functions with a finite domain of keys.
EmptyDict == <<>>

Has(d, k) == k \in DOMAIN d

Get(d, k, default) == IF k \in DOMAIN d THEN d[k] ELSE default

Put(d, k, v) == [x \in DOMAIN d \cup {k} |-> IF x = k THEN v ELSE d[x]]

\* A stored attribute is either a JSON string (what json.dumps wrote) or a
\* native DynamoDB map/list (what put_item stores for a dict or a list).
\* json.loads accepts only the first and raises TypeError on the second.
json_dumps(v) == [enc |-> "json", val |-> v]

Native(v) == [enc |-> "native", val |-> v]

json_loads_ok(x) == x.enc = "json"

json_loads(x) == x.val

\* class ConversationState, lines 48-65
GREETING == "greeting"
QUALIFICATION == "qualification"
BILL_RESPONSIBILITY == "bill_responsibility"
DEBT_AMOUNT == "debt_amount"
CARD_COUNT == "card_count"
PAYMENT_STATUS == "payment_status"
EMPLOYMENT == "employment"
MONTHLY_PAYMENT == "monthly_payment"
QUALIFICATION_COMPLETE == "qualification_complete"
INTENT_CHECK == "intent_check"
OBJECTION_HANDLING == "objection_handling"
TRANSFER == "transfer"
CLOSING == "closing"
ENDED == "ended"

ConversationState ==
    {GREETING, QUALIFICATION, BILL_RESPONSIBILITY, DEBT_AMOUNT, CARD_COUNT,
     PAYMENT_STATUS, EMPLOYMENT, MONTHLY_PAYMENT, QUALIFICATION_COMPLETE,
     INTENT_CHECK, OBJECTION_HANDLING, TRANSFER, CLOSING, ENDED}

\* line 45
MIN_DEBT_AMOUNT == 7000

\* customer_info as get_customer_info returns it: None when the table has no
\* item for the call, else the item.
NoneInfo == [none |-> TRUE, d |-> EmptyDict]

Info(d) == [none |-> FALSE, d |-> d]

Goto(state) == [ok |-> TRUE, state |-> state]

Raises(state) == [ok |-> FALSE, state |-> state]

next_from_qualification_absent_qualifies(analysis) ==
    IF Has(analysis, "handles_bills") /\ ~analysis["handles_bills"]
    THEN Goto(BILL_RESPONSIBILITY)
    ELSE Goto(DEBT_AMOUNT)

\* determine_next_state, lines 363-370
next_from_qualification(analysis) ==
    IF Has(analysis, "handles_bills")
    THEN IF analysis["handles_bills"]
         THEN Goto(DEBT_AMOUNT)
         ELSE Goto(BILL_RESPONSIBILITY)
    ELSE Goto(BILL_RESPONSIBILITY)

next_from_bill_responsibility_hangs_up(analysis) ==
    IF Has(analysis, "call_transfer_accepted")
    THEN IF analysis["call_transfer_accepted"]
         THEN Goto(TRANSFER)
         ELSE Goto(ENDED)
    ELSE Goto(DEBT_AMOUNT)

\* determine_next_state, lines 372-379
next_from_bill_responsibility(analysis) ==
    IF Has(analysis, "call_transfer_accepted")
    THEN IF analysis["call_transfer_accepted"]
         THEN Goto(TRANSFER)
         ELSE Goto(CLOSING)
    ELSE Goto(DEBT_AMOUNT)

\* determine_next_state, lines 381-389: customer_info.get raises on None and
\* json.loads raises on a native map.
next_from_debt_amount(customer_info) ==
    IF customer_info.none
    THEN Raises(DEBT_AMOUNT)
    ELSE LET stored == Get(customer_info.d, "debt_info", json_dumps(EmptyDict))
         IN IF ~json_loads_ok(stored)
            THEN Raises(DEBT_AMOUNT)
            ELSE LET debt_info == json_loads(stored)
                 IN IF Has(debt_info, "total_amount")
                       /\ debt_info["total_amount"] < MIN_DEBT_AMOUNT
                    THEN Goto(CLOSING)
                    ELSE Goto(CARD_COUNT)

\* determine_next_state, lines 406-411
next_from_intent_check(analysis) ==
    IF Has(analysis, "intent_confirmed") /\ analysis["intent_confirmed"]
    THEN Goto(TRANSFER)
    ELSE Goto(CLOSING)

\* determine_next_state, lines 413-419
next_from_objection_handling(analysis, customer_info) ==
    IF Has(analysis, "objection_handled") /\ analysis["objection_handled"]
    THEN IF customer_info.none
         THEN Raises(OBJECTION_HANDLING)
         ELSE Goto(Get(customer_info.d, "previous_state", QUALIFICATION))
    ELSE Goto(CLOSING)

next_from_terminal_restarts(current_state) ==
    IF current_state = TRANSFER THEN Goto(ENDED) ELSE Goto(GREETING)

\* determine_next_state, lines 421-425
next_from_terminal(current_state) == Goto(ENDED)

\* A progression that leaves a slot-collecting state only when the extraction
\* carries the slot that state asks for.
normal_progression_waits_for_slot(current_state, analysis, customer_info) ==
    CASE current_state = GREETING -> Goto(QUALIFICATION)
      [] current_state = QUALIFICATION -> next_from_qualification(analysis)
      [] current_state = BILL_RESPONSIBILITY -> next_from_bill_responsibility(analysis)
      [] current_state = DEBT_AMOUNT -> next_from_debt_amount(customer_info)
      [] current_state = CARD_COUNT ->
            IF Has(analysis, "card_count") THEN Goto(PAYMENT_STATUS) ELSE Goto(CARD_COUNT)
      [] current_state = PAYMENT_STATUS ->
            IF Has(analysis, "payment_status") THEN Goto(EMPLOYMENT)
            ELSE Goto(PAYMENT_STATUS)
      [] current_state = EMPLOYMENT ->
            IF Has(analysis, "employment_status") THEN Goto(MONTHLY_PAYMENT)
            ELSE Goto(EMPLOYMENT)
      [] current_state = MONTHLY_PAYMENT ->
            IF Has(analysis, "monthly_payment") THEN Goto(QUALIFICATION_COMPLETE)
            ELSE Goto(MONTHLY_PAYMENT)
      [] current_state = QUALIFICATION_COMPLETE -> Goto(INTENT_CHECK)
      [] current_state = INTENT_CHECK -> next_from_intent_check(analysis)
      [] current_state = OBJECTION_HANDLING ->
            next_from_objection_handling(analysis, customer_info)
      [] current_state \in {TRANSFER, CLOSING} -> next_from_terminal(current_state)
      [] OTHER -> Goto(GREETING)

\* determine_next_state, lines 359-428: the progression when no objection is
\* detected.
normal_progression(current_state, analysis, customer_info) ==
    CASE current_state = GREETING -> Goto(QUALIFICATION)
      [] current_state = QUALIFICATION -> next_from_qualification(analysis)
      [] current_state = BILL_RESPONSIBILITY -> next_from_bill_responsibility(analysis)
      [] current_state = DEBT_AMOUNT -> next_from_debt_amount(customer_info)
      [] current_state = CARD_COUNT -> Goto(PAYMENT_STATUS)
      [] current_state = PAYMENT_STATUS -> Goto(EMPLOYMENT)
      [] current_state = EMPLOYMENT -> Goto(MONTHLY_PAYMENT)
      [] current_state = MONTHLY_PAYMENT -> Goto(QUALIFICATION_COMPLETE)
      [] current_state = QUALIFICATION_COMPLETE -> Goto(INTENT_CHECK)
      [] current_state = INTENT_CHECK -> next_from_intent_check(analysis)
      [] current_state = OBJECTION_HANDLING ->
            next_from_objection_handling(analysis, customer_info)
      [] current_state \in {TRANSFER, CLOSING} -> next_from_terminal(current_state)
      [] OTHER -> Goto(GREETING)

ObjectionDetected(analysis) ==
    Has(analysis, "objection_detected") /\ analysis["objection_detected"]

determine_next_state_after_terminal(current_state, analysis, customer_info) ==
    IF current_state \in {TRANSFER, CLOSING}
    THEN normal_progression(current_state, analysis, customer_info)
    ELSE IF ObjectionDetected(analysis)
    THEN Goto(OBJECTION_HANDLING)
    ELSE normal_progression(current_state, analysis, customer_info)

\* determine_next_state, lines 351-428. Returns the next state, or ok = FALSE
\* where the Python raises (attribute access on None, json.loads of a map).
determine_next_state(current_state, analysis, customer_info) ==
    IF ObjectionDetected(analysis)
    THEN Goto(OBJECTION_HANDLING)
    ELSE normal_progression(current_state, analysis, customer_info)

\* Python truthiness of an extracted value, by the type the key carries.
NumKeys == {"debt_amount", "card_count", "monthly_payment"}

BoolKeys == {"objection_detected", "handles_bills", "call_transfer_accepted",
             "intent_confirmed", "objection_handled"}

Truthy(k, v) ==
    IF k \in NumKeys THEN v # 0
    ELSE IF k \in BoolKeys THEN v
    ELSE v # ""

\* A test that asks only for the key to be there.
Present_key_only(analysis, k) == Has(analysis, k)

\* The test "'k' in analysis and analysis['k']" of lines 200-263.
Present(analysis, k) == Has(analysis, k) /\ Truthy(k, analysis[k])

\* conversation_scripts.py and get_question_for_state, lines 130-157: the
\* script bound to a state. The card-count and monthly-payment scripts parse
\* debt_info with json.loads; the intent, transfer and closing scripts read
\* the profile with .get; the others ignore the profile.
get_question_for_state(state, customer_info) ==
    CASE state \in {CARD_COUNT, MONTHLY_PAYMENT} ->
            IF customer_info.none
               \/ ~json_loads_ok(Get(customer_info.d, "debt_info", json_dumps(EmptyDict)))
            THEN [ok |-> FALSE, text |-> "raised"]
            ELSE [ok |-> TRUE, text |-> state]
      [] state \in {INTENT_CHECK, TRANSFER, CLOSING} ->
            IF customer_info.none
            THEN [ok |-> FALSE, text |-> "raised"]
            ELSE [ok |-> TRUE, text |-> state]
      [] state \in {GREETING, QUALIFICATION, BILL_RESPONSIBILITY, DEBT_AMOUNT,
                    PAYMENT_STATUS, EMPLOYMENT} ->
            [ok |-> TRUE, text |-> state]
      [] OTHER -> [ok |-> TRUE, text |-> "Unknown state"]

\* process_user_input, lines 199-204: name fields.
merge_names(analysis, customer_info) ==
    LET first == Present(analysis, "first_name")
        last == Present(analysis, "last_name")
    IN IF ~first /\ ~last THEN [ok |-> TRUE, ci |-> customer_info]
       ELSE IF customer_info.none THEN [ok |-> FALSE, ci |-> customer_info]
       ELSE LET d1 == IF first
                      THEN Put(customer_info.d, "first_name", analysis["first_name"])
                      ELSE customer_info.d
                d2 == IF last THEN Put(d1, "last_name", analysis["last_name"]) ELSE d1
            IN [ok |-> TRUE, ci |-> Info(d2)]

\* The analysis key and the debt_info slot each slot-collecting state owns.
SlotStates == {DEBT_AMOUNT, CARD_COUNT, PAYMENT_STATUS, EMPLOYMENT, MONTHLY_PAYMENT}

AnalysisKey(state) ==
    CASE state = DEBT_AMOUNT -> "debt_amount"
      [] state = CARD_COUNT -> "card_count"
      [] state = PAYMENT_STATUS -> "payment_status"
      [] state = EMPLOYMENT -> "employment_status"
      [] state = MONTHLY_PAYMENT -> "monthly_payment"

SlotKey(state) ==
    CASE state = DEBT_AMOUNT -> "total_amount"
      [] state = CARD_COUNT -> "card_count"
      [] state = PAYMENT_STATUS -> "payment_status"
      [] state = EMPLOYMENT -> "employment_status"
      [] state = MONTHLY_PAYMENT -> "monthly_payment"

\* A merge that writes an extracted slot into debt_info whatever the current
\* state is.
merge_state_fields_any_state(current_state, analysis, call_data, customer_info) ==
    LET hits == {s \in SlotStates : Present(analysis, AnalysisKey(s))}
    IN IF hits = {}
       THEN [ok |-> TRUE, cd |-> call_data, ci |-> customer_info]
       ELSE IF customer_info.none
               \/ ~json_loads_ok(Get(customer_info.d, "debt_info", json_dumps(EmptyDict)))
       THEN [ok |-> FALSE, cd |-> call_data, ci |-> customer_info]
       ELSE LET s == CHOOSE x \in hits : TRUE
                debt_info == json_loads(Get(customer_info.d, "debt_info",
                                            json_dumps(EmptyDict)))
            IN [ok |-> TRUE, cd |-> call_data,
                ci |-> Info(Put(customer_info.d, "debt_info",
                                json_dumps(Put(debt_info, SlotKey(s),
                                               analysis[AnalysisKey(s)]))))]

\* process_user_input, lines 206-261: fields scoped to the current state.
merge_state_fields(current_state, analysis, call_data, customer_info) ==
    CASE current_state \in {QUALIFICATION, BILL_RESPONSIBILITY} ->
            LET hb == Has(analysis, "handles_bills")
                bn == Present(analysis, "bill_handler_name")
                ta == Has(analysis, "call_transfer_accepted")
                cb == Present(analysis, "callback_time")
            IN IF ~(hb \/ bn \/ ta \/ cb)
               THEN [ok |-> TRUE, cd |-> call_data, ci |-> customer_info]
               ELSE IF customer_info.none
               THEN [ok |-> FALSE, cd |-> call_data, ci |-> customer_info]
               ELSE LET d1 == IF hb THEN Put(customer_info.d, "handles_bills",
                                             analysis["handles_bills"])
                              ELSE customer_info.d
                        d2 == IF bn THEN Put(d1, "bill_handler_name",
                                             analysis["bill_handler_name"]) ELSE d1
                        d3 == IF ta THEN Put(d2, "call_transfer_accepted",
                                             analysis["call_transfer_accepted"]) ELSE d2
                        d4 == IF cb THEN Put(d3, "callback_time",
                                             analysis["callback_time"]) ELSE d3
                    IN [ok |-> TRUE, cd |-> call_data, ci |-> Info(d4)]
      [] current_state \in SlotStates ->
            IF ~Present(analysis, AnalysisKey(current_state))
            THEN [ok |-> TRUE, cd |-> call_data, ci |-> customer_info]
            ELSE IF customer_info.none
                    \/ ~json_loads_ok(Get(customer_info.d, "debt_info", json_dumps(EmptyDict)))
            THEN [ok |-> FALSE, cd |-> call_data, ci |-> customer_info]
            ELSE LET debt_info == json_loads(Get(customer_info.d, "debt_info",
                                                 json_dumps(EmptyDict)))
                     filled == Put(debt_info, SlotKey(current_state),
                                   analysis[AnalysisKey(current_state)])
                 IN [ok |-> TRUE, cd |-> call_data,
                     ci |-> Info(Put(customer_info.d, "debt_info", json_dumps(filled)))]
      [] current_state = INTENT_CHECK ->
            IF ~Has(analysis, "intent_confirmed")
            THEN [ok |-> TRUE, cd |-> call_data, ci |-> customer_info]
            ELSE LET cd1 == Put(call_data, "intent_verified", analysis["intent_confirmed"])
                 IN IF customer_info.none
                    THEN [ok |-> FALSE, cd |-> cd1, ci |-> customer_info]
                    ELSE [ok |-> TRUE, cd |-> cd1,
                          ci |-> Info(Put(customer_info.d, "intent_verified",
                                          analysis["intent_confirmed"]))]
      [] OTHER -> [ok |-> TRUE, cd |-> call_data, ci |-> customer_info]

\* An objection merge that keeps only the objection of this turn.
merge_objection_keeps_latest(analysis, call_data, customer_info) ==
    IF ~Present(analysis, "objection")
    THEN [ok |-> TRUE, cd |-> call_data, ci |-> customer_info]
    ELSE IF customer_info.none
    THEN [ok |-> FALSE, cd |-> call_data, ci |-> customer_info]
    ELSE [ok |-> Has(analysis, "objection_detected"), cd |-> call_data,
          ci |-> Info(Put(customer_info.d, "objections",
                          json_dumps(<<analysis["objection"]>>)))]

\* process_user_input, lines 263-272: objections. analysis['objection_detected']
\* is read without a membership test and raises KeyError when the key is absent.
merge_objection(analysis, call_data, customer_info) ==
    IF ~Present(analysis, "objection")
    THEN [ok |-> TRUE, cd |-> call_data, ci |-> customer_info]
    ELSE IF customer_info.none
            \/ ~json_loads_ok(Get(customer_info.d, "objections", json_dumps(<<>>)))
    THEN [ok |-> FALSE, cd |-> call_data, ci |-> customer_info]
    ELSE LET objections == json_loads(Get(customer_info.d, "objections", json_dumps(<<>>)))
             ci1 == Info(Put(customer_info.d, "objections",
                             json_dumps(Append(objections, analysis["objection"]))))
         IN IF ~Has(analysis, "objection_detected")
            THEN [ok |-> FALSE, cd |-> call_data, ci |-> ci1]
            ELSE IF analysis["objection_detected"]
            THEN [ok |-> TRUE,
                  cd |-> Put(Put(call_data, "current_state", OBJECTION_HANDLING),
                             "objection_type", analysis["objection"]),
                  ci |-> ci1]
            ELSE [ok |-> TRUE, cd |-> call_data, ci |-> ci1]

\* process_user_input, lines 274-308: the data points of the turn record.
data_points(current_state, customer_info) ==
    CASE current_state \in {QUALIFICATION, BILL_RESPONSIBILITY} ->
            IF customer_info.none THEN [ok |-> FALSE, dp |-> EmptyDict]
            ELSE LET hb == Put(EmptyDict, "handles_bills",
                               Get(customer_info.d, "handles_bills", FALSE))
                 IN [ok |-> TRUE,
                     dp |-> IF Has(customer_info.d, "bill_handler_name")
                            THEN Put(hb, "bill_handler_name",
                                     customer_info.d["bill_handler_name"])
                            ELSE hb]
      [] current_state \in SlotStates ->
            IF customer_info.none
               \/ ~json_loads_ok(Get(customer_info.d, "debt_info", json_dumps(EmptyDict)))
            THEN [ok |-> FALSE, dp |-> EmptyDict]
            ELSE LET debt_info == json_loads(Get(customer_info.d, "debt_info",
                                                 json_dumps(EmptyDict)))
                 IN [ok |-> TRUE,
                     dp |-> IF Has(debt_info, SlotKey(current_state))
                            THEN Put(EmptyDict, AnalysisKey(current_state),
                                     debt_info[SlotKey(current_state)])
                            ELSE EmptyDict]
      [] OTHER -> [ok |-> TRUE, dp |-> EmptyDict]

\* process_user_input, lines 199-272: the slot merge of one turn.
merge_slots(current_state, analysis, call_data, customer_info) ==
    LET n == merge_names(analysis, customer_info)
        f == merge_state_fields(current_state, analysis, call_data, n.ci)
        o == merge_objection(analysis, f.cd, f.ci)
    IN IF ~n.ok THEN [ok |-> FALSE, cd |-> call_data, ci |-> n.ci]
       ELSE IF ~f.ok THEN [ok |-> FALSE, cd |-> f.cd, ci |-> f.ci]
       ELSE o

\* update_customer_info accepting the two positional arguments of the call at
\* conversation.py line 325.
update_customer_info_two_arguments(args) ==
    IF Len(args) \in {1, 2}
    THEN [ok |-> TRUE, item |-> args[Len(args)]]
    ELSE [ok |-> FALSE, item |-> NoneInfo]

\* db_operations.update_customer_info, lines 84-103: declared with the single
\* positional parameter customer_info. A call with any other number of
\* positional arguments raises TypeError before the body runs.
update_customer_info(args) ==
    IF Len(args) = 1
    THEN [ok |-> TRUE, item |-> args[1]]
    ELSE [ok |-> FALSE, item |-> NoneInfo]

\* get_bot_response, lines 430-440, with objection_handler.get_objection_response:
\* the catalog is keyed by objection type and falls back to the general text.
ObjectionCatalog == {"not_interested", "no_time", "who_are_you", "general"}

get_bot_response(state, customer_info, call_data) ==
    IF state = OBJECTION_HANDLING
    THEN IF customer_info.none
         THEN [ok |-> FALSE, text |-> "raised"]
         ELSE LET objection_type == Get(call_data, "objection_type", "general")
              IN [ok |-> TRUE,
                  text |-> IF objection_type \in ObjectionCatalog
                           THEN objection_type ELSE "general"]
    ELSE get_question_for_state(state, customer_info)

\* The outcome of a turn that raised: the except clause of lines 345-349
\* stores the call record as it stands, with the error text, and re-raises.
Raised(stage, call_data, customer_info, next_state, custWritten, said) ==
    [ok |-> FALSE, stage |-> stage,
     cd |-> Put(call_data, "error", "raised"),
     ci |-> customer_info, next |-> next_state,
     custWritten |-> custWritten, said |-> said, transfer |-> FALSE,
     bot_response |-> "none"]

\* process_user_input, lines 159-349. call_id is the call's key, customer_info
\* what get_customer_info returned. Returns what the turn leaves behind: the
\* call record last written, the in-memory profile, whether the profile was
\* written, the transcript entries saved after the customer's, the hand-off.
process_user_input(transcript, analysis, call_id, call_data, customer_info) ==
    LET current_state == Get(call_data, "current_state", GREETING)
        cd0 == IF Has(call_data, "call_logs") THEN call_data
               ELSE Put(call_data, "call_logs", json_dumps(<<>>))
        q == get_question_for_state(current_state, customer_info)
        m == merge_slots(current_state, analysis, cd0, customer_info)
        dp == data_points(current_state, m.ci)
        entry == [state |-> current_state, question |-> q.text,
                  response |-> transcript, data_points |-> dp.dp]
        cd1 == Put(m.cd, "call_logs",
                   json_dumps(Append(json_loads(cd0["call_logs"]), entry)))
        nx == determine_next_state(current_state, analysis, m.ci)
        cd2 == Put(cd1, "current_state", nx.state)
        upd == update_customer_info(<<call_id, m.ci>>)
        bot == get_bot_response(nx.state, m.ci, cd2)
    IN IF ~q.ok THEN Raised("question", cd0, customer_info, "none", FALSE, <<>>)
       ELSE IF ~m.ok THEN Raised("merge", m.cd, m.ci, "none", FALSE, <<>>)
       ELSE IF ~dp.ok THEN Raised("data_points", m.cd, m.ci, "none", FALSE, <<>>)
       ELSE IF ~nx.ok THEN Raised("next_state", cd1, m.ci, "none", FALSE, <<>>)
       ELSE IF ~upd.ok THEN Raised("update_customer_info", cd2, m.ci, nx.state, FALSE, <<>>)
       ELSE IF ~bot.ok THEN Raised("bot_response", cd2, m.ci, nx.state, TRUE, <<>>)
       ELSE [ok |-> TRUE, stage |-> "returned", cd |-> cd2, ci |-> m.ci,
             next |-> nx.state, custWritten |-> TRUE,
             said |-> <<[speaker |-> "bot", text |-> bot.text]>>,
             transfer |-> nx.state = TRANSFER,
             bot_response |-> bot.text]

----------------------------------------------------------------------------
(* Inputs *)

\* What the NLU collaborator can return: sparse mappings, absent keys meaning
\* "not mentioned". Built from an objection part, a name part and a part with
\* the state-scoped keys.
ObjectionParts ==
    {EmptyDict,
     [objection_detected |-> TRUE],
     [objection_detected |-> FALSE],
     [objection_detected |-> TRUE, objection |-> "not_interested"],
     [objection_detected |-> FALSE, objection |-> "general"],
     [objection_detected |-> FALSE, objection |-> ""],
     [objection |-> "no_time"]}

NameParts == {EmptyDict, [first_name |-> "John"]}

DebtAmounts == {0, 5000, 6999, 7000, 20000}

StateParts ==
    {EmptyDict,
     [handles_bills |-> TRUE], [handles_bills |-> FALSE],
     [call_transfer_accepted |-> TRUE], [call_transfer_accepted |-> FALSE],
     [card_count |-> 3], [payment_status |-> "behind"],
     [employment_status |-> "employed"], [monthly_payment |-> 400],
     [intent_confirmed |-> TRUE], [intent_confirmed |-> FALSE],
     [objection_handled |-> TRUE], [objection_handled |-> FALSE]}
    \cup {[debt_amount |-> a] : a \in DebtAmounts}

\* openai_client.analyze_response, lines 153-161: the mapping returned when
\* the NLU call fails or its output does not parse.
DefaultAnalysis ==
    [first_name |-> "", last_name |-> "", objection_detected |-> FALSE,
     objection |-> "general"]

Analyses ==
    {o @@ n @@ p : o \in ObjectionParts, n \in NameParts, p \in StateParts}
    \cup {DefaultAnalysis}

\* The extractions offered to the turns of a whole call: the same shapes, with
\* fewer values.
TurnAnalyses ==
    {o @@ p : o \in {EmptyDict, [objection_detected |-> TRUE],
                     [objection_detected |-> TRUE, objection |-> "not_interested"]},
              p \in {EmptyDict, [handles_bills |-> TRUE], [handles_bills |-> FALSE],
                     [call_transfer_accepted |-> TRUE], [call_transfer_accepted |-> FALSE],
                     [debt_amount |-> 5000], [debt_amount |-> 7000],
                     [intent_confirmed |-> TRUE],
                     [objection_handled |-> TRUE], [objection_handled |-> FALSE]}}
    \cup {DefaultAnalysis, [first_name |-> "John"], [objection |-> "no_time"],
          [handles_bills |-> TRUE, first_name |-> "John"]}

\* inbound-sip-handler.initialize_call_data, lines 332-341: the profile item
\* stored for a new call; debt_info and objections are a native map and list.
SipCustomerItem ==
    [handles_bills |-> TRUE, debt_info |-> Native(EmptyDict), objections |-> Native(<<>>)]

\* inbound-sip-handler, lines 314-326 and 189-194: the call record after
\* handle_inbound_sip_call.
SipCallItem ==
    [current_state |-> GREETING, call_state |-> "active", room_name |-> "room",
     intent_verified |-> FALSE]

\* conversation.handle_webhook, lines 497-512, and initialize_conversation,
\* lines 113-119: the call record of a call first seen by the webhook.
WebhookCallItem ==
    [current_state |-> GREETING, call_state |-> "initializing", room_name |-> "room"]

NoCall == [exists |-> FALSE, item |-> EmptyDict]

Call(item) == [exists |-> TRUE, item |-> item]

NoTurn == [status |-> 0, stage |-> "none", prev |-> "none", next |-> "none",
           analysis |-> EmptyDict, ci |-> NoneInfo, call_id |-> "", transcript |-> "",
           bot_response |-> "none"]

\* The observation of a request that ended before process_user_input.
Answered(call_id, transcript, status, stage) ==
    [NoTurn EXCEPT !.status = status, !.stage = stage,
                   !.call_id = call_id, !.transcript = transcript]

\* The handlers that read the call record, work, and write it back, each one
\* in its own invocation: the turn (conversation.handle_transcript), the
\* conversation set-up (conversation.handle_webhook), the inbound SIP handler
\* and the voice-event handler.
Handlers == {"turn", "webhook", "sip", "event"}

IdleJob == [pc |-> "idle", call |-> NoCall, cust |-> NoneInfo, arg |-> "", runs |-> 0]

NoJobs == [h \in Handlers |-> IdleJob]

NoRoom == [checked |-> FALSE, room_info |-> [status |-> "none"], room_exists |-> FALSE,
           created |-> FALSE, pipeline |-> FALSE]

NoFn == [phase |-> "idle", state |-> "none", analysis |-> EmptyDict, ci |-> NoneInfo,
         mergeOk |-> FALSE, next |-> [ok |-> FALSE, state |-> "none"],
         cd |-> EmptyDict, response |-> [ok |-> FALSE, text |-> "none"],
         result |-> Raised("none", EmptyDict, NoneInfo, "none", FALSE, <<>>)]

InitFnIdle == fn = NoFn

\* The record store before the first transcript of a call: no record of the
\* call, or the records the two set-up handlers leave.
InitStore ==
    /\ \/ callTable = NoCall /\ customerTable = NoneInfo /\ transcripts = <<>>
       \/ /\ callTable = Call(WebhookCallItem)
          /\ customerTable = NoneInfo
          /\ transcripts = <<[speaker |-> "bot", text |-> GREETING]>>
       \/ /\ callTable = Call(SipCallItem)
          /\ customerTable = Info(SipCustomerItem)
          /\ transcripts = <<>>
    /\ handoffs = 0
    /\ turn = NoTurn
    /\ turns = 0
    /\ jobs = NoJobs
    /\ room = NoRoom

InitStoreIdle ==
    /\ callTable = NoCall /\ customerTable = NoneInfo /\ transcripts = <<>>
    /\ handoffs = 0 /\ turn = NoTurn /\ turns = 0
    /\ jobs = NoJobs
    /\ room = NoRoom

InitClientIdle ==
    /\ circuit = NoCircuit
    /\ tokenCache = [s \in Scopes |-> NoToken]
    /\ now = 0 /\ creds = TRUE /\ req = NoReq /\ streak = 0

Transcripts == {"", "yes"}

TheCall == "call_1"

\* The call_id of a request: missing, or the call's.
CallIds == {"", TheCall}

\* A validation that asks for the call_id only.
valid_request_call_id_only(call_id, transcript) == call_id # ""

\* handle_transcript, line 577, and process_transcript, lines 67-86: both
\* the call_id and the transcript must be there and not empty.
valid_request(call_id, transcript) == call_id # "" /\ transcript # ""

\* A get_call that answers with an empty record for a call_id it does not
\* know.
get_call_always_finds(call_id, table) ==
    [found |-> TRUE, item |-> IF table.exists THEN table.item ELSE EmptyDict]

\* db_operations.get_call, lines 25-42: the record of call_id, or None.
get_call(call_id, table) ==
    IF call_id = TheCall /\ table.exists
    THEN [found |-> TRUE, item |-> table.item]
    ELSE [found |-> FALSE, item |-> EmptyDict]

\* conversation.handle_transcript, lines 552-613, for the call TheCall: one
\* request with this transcript, the NLU collaborator answering with this
\* extraction if it is asked.
TurnOn(call_id, transcript, analysis, table, customer_info) ==
    /\ turns' = turns + 1
    /\ IF ~valid_request(call_id, transcript)
       THEN /\ turn' = Answered(call_id, transcript, 400, "none")
            /\ UNCHANGED <<callTable, customerTable, transcripts, handoffs, clientVars,
                           spoken>>
       ELSE \E call_data \in {get_call(call_id, table)} :
          IF ~call_data.found
          THEN /\ turn' = Answered(call_id, transcript, 404, "none")
               /\ UNCHANGED <<callTable, customerTable, transcripts, handoffs, clientVars,
                              spoken>>
          ELSE
          \E r \in {process_user_input(transcript, analysis, call_id,
                                       call_data.item, customer_info)} :
            LET speaks == r.ok /\ Has(call_data.item, "room_name")
            IN /\ callTable' = Call(r.cd)
               /\ customerTable' = IF r.custWritten THEN r.ci ELSE customerTable
               /\ transcripts' = transcripts
                                   \o <<[speaker |-> "customer", text |-> transcript]>>
                                   \o r.said
               /\ handoffs' = IF r.transfer THEN handoffs + 1 ELSE handoffs
               /\ turn' = [status |-> IF r.ok THEN 200 ELSE 500, stage |-> r.stage,
                           prev |-> Get(call_data.item, "current_state", GREETING),
                           next |-> r.next, analysis |-> analysis, ci |-> r.ci,
                           call_id |-> call_id, transcript |-> transcript,
                           bot_response |-> r.bot_response]
               /\ IF speaks
                  THEN \E resp \in Responses : SpeakResponse(resp)
                  ELSE UNCHANGED <<circuit, tokenCache, req, streak, spoken>>
               /\ UNCHANGED <<now, creds>>
    /\ UNCHANGED <<fn, callers, tokenCall, room>>

\* A request handled from its first read to its last write with no other
\* handler in between.
Turn(call_id, transcript, analysis) ==
    /\ TurnOn(call_id, transcript, analysis, callTable, customerTable)
    /\ UNCHANGED jobs

HandleTranscript ==
    /\ turns < MaxTurns
    /\ \E call_id \in CallIds, transcript \in Transcripts :
       \E analysis \in IF call_id = "" \/ transcript = "" \/ ~callTable.exists
                       THEN {EmptyDict} ELSE TurnAnalyses :
          Turn(call_id, transcript, analysis)

\* transcript-handler.process_transcript, lines 53-162: the transcript front
\* door. It validates, looks the call up, stores the customer's words and
\* forwards them to the conversation function as an asynchronous event; that
\* event carries no path, and conversation.lambda_handler (lines 739-752)
\* answers it 404 without doing anything.
ProcessTranscript ==
    /\ turns < MaxTurns
    /\ turns' = turns + 1
    /\ \E call_id \in CallIds, transcript \in Transcripts, is_bot \in BOOLEAN :
        IF ~valid_request(call_id, transcript)
        THEN /\ turn' = Answered(call_id, transcript, 400, "none")
             /\ UNCHANGED transcripts
        ELSE IF is_bot
        THEN /\ turn' = Answered(call_id, transcript, 200, "skipped")
             /\ UNCHANGED transcripts
        ELSE \E call_data \in {get_call(call_id, callTable)} :
             IF ~call_data.found
             THEN /\ turn' = Answered(call_id, transcript, 404, "none")
                  /\ UNCHANGED transcripts
             ELSE IF Get(call_data.item, "call_state", "none") \in {"ended", "failed"}
             THEN /\ turn' = Answered(call_id, transcript, 200, "skipped")
                  /\ UNCHANGED transcripts
             ELSE /\ turn' = Answered(call_id, transcript, 200, "forwarded")
                  /\ transcripts' = Append(transcripts,
                                           [speaker |-> "customer", text |-> transcript])
    /\ UNCHANGED <<callTable, customerTable, handoffs, room, clientVars, fn, callers,
                   tokenCall, spoken, jobs>>

Next == HandleTranscript \/ ProcessTranscript

Init == InitClientIdle /\ InitStore /\ InitFnIdle /\ InitCallersIdle

Spec == Init /\ [][Next]_vars

----------------------------------------------------------------------------
(* A whole call: more turns, with the extractions that move a call along   *)
(* its path to the hand-off and back.                                       *)

CallAnalyses ==
    {EmptyDict, [objection_detected |-> TRUE], [objection_handled |-> TRUE],
     [handles_bills |-> TRUE], [call_transfer_accepted |-> TRUE],
     [call_transfer_accepted |-> FALSE], [debt_amount |-> 7000],
     [intent_confirmed |-> TRUE]}

HandleCallTranscript ==
    /\ turns < MaxCallTurns
    /\ \E analysis \in IF ~callTable.exists THEN {EmptyDict} ELSE CallAnalyses :
          Turn(TheCall, "yes", analysis)

NextCall == HandleCallTranscript

SpecCall == Init /\ [][NextCall]_vars

----------------------------------------------------------------------------
(* A call in which no extraction reports an objection, turn after turn.     *)

ProgressAnalyses ==
    {EmptyDict, [handles_bills |-> TRUE], [call_transfer_accepted |-> TRUE],
     [call_transfer_accepted |-> FALSE], [debt_amount |-> 7000],
     [intent_confirmed |-> TRUE]}

HandleProgressTranscript ==
    /\ turns < MaxProgressTurns
    /\ callTable.exists
    /\ \E analysis \in ProgressAnalyses : Turn(TheCall, "yes", analysis)

NextProgress == HandleProgressTranscript

SpecProgress == Init /\ [][NextProgress]_vars

----------------------------------------------------------------------------
(* The life of a call record: the set-up handlers, the turns and the voice  *)
(* events run as separate invocations; each reads the record, works, and    *)
(* writes it back, and other invocations run in between.                    *)

MaxInvocations == 3

LifeAnalyses ==
    {EmptyDict, [handles_bills |-> TRUE],
     [objection_detected |-> TRUE, objection |-> "not_interested"]}

\* inbound-sip-handler.initialize_call_data, lines 314-326: the call record
\* put for a call_id the table does not hold.
InitiatedCallItem ==
    [current_state |-> "init", call_state |-> "initiated", room_name |-> "room",
     intent_verified |-> FALSE]

\* inbound-sip-handler.update_call_data, lines 348-388: update_item sets the
\* given attributes on the stored item and keeps the others; it creates the
\* item when there is none.
update_call_data(table, updates) ==
    Call(updates @@ (IF table.exists THEN table.item ELSE EmptyDict))

\* db_operations.update_call, lines 44-63: put_item replaces the stored item
\* with the caller's copy.
update_call(call_data) == Call(call_data)

\* make_api_request, lines 186-283, as one call: gate, token and exchange.
make_api_request(op, resp, c, cache, t, haveCreds) ==
    LET b == begin_request(op, c, cache, t, haveCreds)
        e == complete_request(resp, b.circuit, t)
    IN IF b.outcome = "pending"
       THEN [circuit |-> e.circuit, cache |-> b.cache, outcome |-> e.outcome,
             result |-> e.result, http |-> TRUE, gated |-> b.gated]
       ELSE [circuit |-> b.circuit, cache |-> b.cache, outcome |-> b.outcome,
             result |-> b.result, http |-> FALSE, gated |-> b.gated]

\* Handler invocations started so far.
Invocations ==
    LET n(h) == jobs[h].runs + (IF jobs[h].pc = "read" THEN 1 ELSE 0)
    IN n("turn") + n("webhook") + n("sip") + n("event")

Started(h, table, customer_info, arg) ==
    [jobs EXCEPT ![h] = [pc |-> "read", call |-> table, cust |-> customer_info,
                         arg |-> arg, runs |-> jobs[h].runs]]

Finished(h) ==
    [jobs EXCEPT ![h] = [IdleJob EXCEPT !.runs = jobs[h].runs + 1]]

\* handle_inbound_sip_call, lines 167-171: look the call up and, if it is not
\* there, put the initial call record and the initial profile.
SipInitialize ==
    /\ jobs["sip"].pc = "idle" /\ Invocations < MaxInvocations
    /\ IF callTable.exists
       THEN UNCHANGED <<callTable, customerTable>>
       ELSE /\ callTable' = Call(InitiatedCallItem)
            /\ customerTable' = Info(SipCustomerItem)
    /\ jobs' = Started("sip", NoCall, NoneInfo, "")
    /\ UNCHANGED <<transcripts, handoffs, room, turn, turns, clientVars, fn, callers,
                   tokenCall, spoken>>

\* handle_inbound_sip_call, lines 173-197: the room is set up through the
\* handler's own client, then room_name, call_state and current_state are set
\* on the stored record, whatever it holds by then. The start_conversation
\* event carries no path and the conversation function answers it 404.
SipActivate ==
    /\ jobs["sip"].pc = "read"
    /\ callTable' = update_call_data(callTable,
                        [room_name |-> "room", call_state |-> "active",
                         current_state |-> GREETING])
    /\ jobs' = Finished("sip")
    /\ UNCHANGED <<customerTable, transcripts, handoffs, room, turn, turns, clientVars,
                   fn, callers, tokenCall, spoken>>

\* handle_webhook, line 498: the call record is read.
WebhookRead ==
    /\ jobs["webhook"].pc = "idle" /\ Invocations < MaxInvocations
    /\ jobs' = Started("webhook", callTable, NoneInfo, "")
    /\ UNCHANGED <<callTable, customerTable, transcripts, handoffs, room, turn, turns,
                   clientVars, fn, callers, tokenCall, spoken>>

\* Python's None, which no mapping equals.
None == [status |-> "None"]

\* conversation.check_livekit_room, lines 67-75: the room counts as existing
\* when get_room returned anything but None; an exception counts as "no room".
check_livekit_room(room_info, raised) ==
    IF raised THEN FALSE ELSE room_info # None

\* handle_webhook, lines 499-529, with initialize_conversation, lines 97-119:
\* get_room is asked for the room, create_room is called if the room does not
\* count as existing, the voice pipeline is set up; the copy read at line 498
\* is put back with room_name and current_state = greeting; the greeting is
\* saved and spoken. get_room (lines 319-338) hands back what make_api_request
\* returns, which is a mapping for every answer of the transport and for the
\* breaker's rejection, and never raises.
WebhookWrite ==
    /\ jobs["webhook"].pc = "read"
    /\ \E r1 \in Responses, r2 \in Responses, r3 \in Responses :
       \E a \in {make_api_request("get_room", r1, circuit, tokenCache, now, creds)} :
       \E room_exists \in {check_livekit_room(api_result(a.result), FALSE)} :
       \E rc \in IF room_exists THEN {r1} ELSE Responses :
       \E k \in {IF room_exists THEN a
                  ELSE make_api_request("create_room", rc, a.circuit, a.cache,
                                        now, creds)} :
       \E b \in {make_api_request("setup_voice_pipeline", r2, k.circuit, k.cache,
                                  now, creds)} :
       \E c \in {make_api_request("speak_text", r3, b.circuit, b.cache, now, creds)} :
          /\ circuit' = c.circuit
          /\ tokenCache' = c.cache
          /\ req' = [phase |-> "done", outcome |-> c.outcome, http |-> c.http,
                     result |-> c.result, pre |-> b.circuit, gated |-> c.gated,
                     preStreak |-> StreakAfter(b.outcome, StreakAfter(a.outcome, streak)),
                     at |-> now, doneAt |-> now, attempts |-> <<>>]
          /\ streak' = StreakAfter(c.outcome,
                           StreakAfter(b.outcome, StreakAfter(a.outcome, streak)))
          /\ spoken' = [made |-> TRUE, response |-> api_result(c.result),
                        returned |-> speak_response(api_result(c.result), FALSE)]
          /\ room' = [checked |-> TRUE, room_info |-> api_result(a.result),
                      room_exists |-> room_exists, created |-> ~room_exists,
                      pipeline |-> TRUE]
    /\ LET call_data == IF jobs["webhook"].call.exists
                        THEN jobs["webhook"].call.item
                        ELSE [call_state |-> "initializing"]
       IN callTable' = update_call([room_name |-> "room", current_state |-> GREETING]
                                   @@ call_data)
    /\ transcripts' = Append(transcripts,
                             [speaker |-> "bot",
                              text |-> get_question_for_state(GREETING, customerTable).text])
    /\ jobs' = Finished("webhook")
    /\ UNCHANGED <<customerTable, handoffs, turn, turns, now, creds, fn, callers,
                   tokenCall>>

VoiceEvents == {"room_ended", "error"}

\* voice-events.py, handle_room_ended line 134 and handle_error line 157: the
\* call record is read; an event for a call that is not there is dropped.
EventRead ==
    /\ jobs["event"].pc = "idle" /\ Invocations < MaxInvocations
    /\ \E event_type \in VoiceEvents :
          jobs' = IF callTable.exists
                  THEN Started("event", callTable, NoneInfo, event_type)
                  ELSE Finished("event")
    /\ UNCHANGED <<callTable, customerTable, transcripts, handoffs, room, turn, turns,
                   clientVars, fn, callers, tokenCall, spoken>>

\* voice-events.py, handle_room_ended lines 139-145 and handle_error lines
\* 162-170: the copy that was read is changed and put back.
EventWrite ==
    /\ jobs["event"].pc = "read"
    /\ callTable' = update_call(
          IF jobs["event"].arg = "room_ended"
          THEN [call_state |-> "ended", end_reason |-> "room_closed"]
               @@ jobs["event"].call.item
          ELSE [last_error |-> "error"] @@ jobs["event"].call.item)
    /\ jobs' = Finished("event")
    /\ UNCHANGED <<customerTable, transcripts, handoffs, room, turn, turns, clientVars,
                   fn, callers, tokenCall, spoken>>

\* handle_transcript, line 584, and process_user_input, line 166: the turn
\* reads the call record and the profile, then waits for the NLU collaborator.
TurnRead ==
    /\ jobs["turn"].pc = "idle" /\ Invocations < MaxInvocations
    /\ jobs' = Started("turn", callTable, customerTable, "")
    /\ UNCHANGED <<callTable, customerTable, transcripts, handoffs, room, turn, turns,
                   clientVars, fn, callers, tokenCall, spoken>>

\* The rest of the turn, on the copies that were read.
TurnWrite ==
    /\ jobs["turn"].pc = "read"
    /\ \E analysis \in IF jobs["turn"].call.exists THEN LifeAnalyses ELSE {EmptyDict} :
          TurnOn(TheCall, "yes", analysis, jobs["turn"].call, jobs["turn"].cust)
    /\ jobs' = Finished("turn")

InitLife ==
    /\ InitClientIdle /\ InitFnIdle /\ InitCallersIdle
    /\ InitStoreIdle

NextLife ==
    \/ SipInitialize \/ SipActivate
    \/ WebhookRead \/ WebhookWrite
    \/ EventRead \/ EventWrite
    \/ TurnRead \/ TurnWrite

SpecLife == InitLife /\ [][NextLife]_vars

----------------------------------------------------------------------------
(* Function harness: the slot merge and the transition function applied to  *)
(* inputs drawn from bounded sets.                                          *)

FnStates == ConversationState \cup {"init"}

FnProfiles ==
    {NoneInfo, Info(SipCustomerItem), Info(EmptyDict),
     Info([first_name |-> "Ann", debt_info |-> json_dumps(EmptyDict),
           objections |-> json_dumps(<<"no_time">>)])}
    \cup {Info([debt_info |-> json_dumps([total_amount |-> a])]) : a \in {5000, 7000}}
    \cup {Info([previous_state |-> p]) : p \in {DEBT_AMOUNT, ENDED}}

InitFn ==
    /\ InitClientIdle /\ InitStoreIdle /\ InitCallersIdle
    /\ \E s \in FnStates, a \in Analyses, p \in FnProfiles :
          fn = [NoFn EXCEPT !.phase = "input", !.state = s, !.analysis = a, !.ci = p]

\* Apply the slot merge of process_user_input to the inputs.
ApplyMerge ==
    /\ fn.phase = "input"
    /\ LET m == merge_slots(fn.state, fn.analysis,
                            [current_state |-> fn.state], fn.ci)
       IN fn' = [fn EXCEPT !.phase = "merged", !.mergeOk = m.ok, !.ci = m.ci,
                           !.cd = m.cd]
    /\ UNCHANGED <<clientVars, storeVars, callers, tokenCall, spoken>>

\* Apply determine_next_state to the inputs, or to the merged profile.
ApplyDetermine ==
    /\ fn.phase = "input" \/ (fn.phase = "merged" /\ fn.mergeOk)
    /\ fn' = [fn EXCEPT !.phase = IF fn.phase = "input" THEN "done" ELSE "turn",
                        !.next = determine_next_state(fn.state, fn.analysis, fn.ci)]
    /\ UNCHANGED <<clientVars, storeVars, callers, tokenCall, spoken>>

\* Apply get_bot_response to the next state of a turn, as line 330 does: with
\* the merged profile and the call record that carries the next state.
ApplyRespond ==
    /\ fn.phase = "turn" /\ fn.next.ok
    /\ fn' = [fn EXCEPT !.phase = "responded",
                        !.response = get_bot_response(fn.next.state, fn.ci,
                                        Put(fn.cd, "current_state", fn.next.state))]
    /\ UNCHANGED <<clientVars, storeVars, callers, tokenCall, spoken>>

\* Apply process_user_input, lines 159-349, to the inputs: one whole turn of a
\* call whose record holds the state and whose profile is the given one.
ApplyTurn ==
    /\ fn.phase = "input"
    /\ \E r \in {process_user_input("yes", fn.analysis, TheCall,
                                     [current_state |-> fn.state], fn.ci)} :
          fn' = [fn EXCEPT !.phase = "processed", !.result = r]
    /\ UNCHANGED <<clientVars, storeVars, callers, tokenCall, spoken>>

NextFn == ApplyMerge \/ ApplyDetermine \/ ApplyRespond \/ ApplyTurn

SpecFn == InitFn /\ [][NextFn]_vars

----------------------------------------------------------------------------
(* Resilient client on its own: requests one at a time, and time.           *)

InitCB == InitClient /\ InitStoreIdle /\ InitFnIdle /\ InitCallersIdle

NextCB == BeginRequest \/ CompleteRequest \/ Tick

SpecCB == InitCB /\ [][NextCB]_vars

----------------------------------------------------------------------------
(* Resilient client shared by concurrent callers.                           *)

CallerBeginAny == \E t \in Callers : CallerBegin(t)

CallerCompleteAny == \E t \in Callers : CallerComplete(t)

NextMT == CallerBeginAny \/ CallerCompleteAny \/ Tick

SpecMT == InitCB /\ [][NextMT]_vars

----------------------------------------------------------------------------
(* Concurrent callers, the update of the failure counter step by step.      *)

CallerAnswerAny == \E t \in Callers : CallerAnswer(t)

CallerRecordFailureAny == \E t \in Callers : CallerRecordFailure(t)

NextRace == CallerBeginAny \/ CallerAnswerAny \/ CallerRecordFailureAny \/ Tick

SpecRace == InitCB /\ [][NextRace]_vars

----------------------------------------------------------------------------
(* The engine speaking through the client, and time.                        *)

NextSpeak == Speak \/ Tick

SpecSpeak == InitCB /\ [][NextSpeak]_vars

----------------------------------------------------------------------------
(* The client over a transport that retries: whole requests, and time.      *)

\* The platform's answers to the attempts of one request, as far as the
\* session asks for them.
AttemptRuns ==
    {answers \in UNION {[1..n -> AttemptAnswers] : n \in 1..(total + 1)} :
        /\ \A i \in 1..(Len(answers) - 1) : Transient(answers[i])
        /\ Len(answers) = total + 1 \/ ~Transient(answers[Len(answers)])}

\* One call of speak_text, the operation the engine calls in every turn: the
\* platform's answers to the attempts are drawn, the session makes as many
\* attempts as its retry policy asks for, and make_api_request handles what
\* the session returns or raises.
TransportRequest ==
    /\ \E op \in {"speak_text"}, answers \in AttemptRuns :
       \E s \in {session_send(answers, 1, total)} :
       \E r \in {make_api_request(op, s.response, circuit, tokenCache, now, creds)} :
          /\ r.circuit.failures <= MaxFailures
          /\ circuit' = r.circuit
          /\ tokenCache' = r.cache
          /\ req' = [phase |-> "done", outcome |-> r.outcome, http |-> r.http,
                     result |-> r.result, pre |-> circuit, gated |-> r.gated,
                     preStreak |-> streak, at |-> now, doneAt |-> now,
                     attempts |-> IF r.http THEN SubSeq(answers, 1, s.sent) ELSE <<>>]
          /\ streak' = StreakAfter(r.outcome, streak)
    /\ UNCHANGED <<now, creds, storeVars, fn, callers, tokenCall, spoken>>

NextRetry == TransportRequest \/ Tick

SpecRetry == InitCB /\ [][NextRetry]_vars

----------------------------------------------------------------------------
(* Token cache on its own: token requests for the operations' scopes, and   *)
(* time.                                                                    *)

NextTok == RequestToken \/ Elapse

SpecTok == InitCB /\ [][NextTok]_vars

----------------------------------------------------------------------------
(* Transition function properties, checked under SpecFn *)

Determined == fn.phase \in {"done", "turn"}

\* The profile's debt_info.total_amount, when the profile has one.
HasTotal(customer_info) ==
    /\ ~customer_info.none
    /\ Has(customer_info.d, "debt_info")
    /\ json_loads_ok(customer_info.d["debt_info"])
    /\ Has(json_loads(customer_info.d["debt_info"]), "total_amount")

Total(customer_info) == json_loads(customer_info.d["debt_info"])["total_amount"]

\* C1: in every state but objection_handling, an extraction with
\* objection_detected = true makes determine_next_state return
\* objection_handling, whatever else is extracted and whatever the profile.
C1_ObjectionInterrupts ==
    (Determined /\ fn.state # OBJECTION_HANDLING /\ ObjectionDetected(fn.analysis)) =>
        fn.next = Goto(OBJECTION_HANDLING)

C1_Witness ==
    /\ Determined /\ fn.state = TRANSFER /\ ObjectionDetected(fn.analysis)
    /\ fn.next.state = OBJECTION_HANDLING

\* C2: in debt_amount without an objection the next state is card_count if
\* and only if the merged profile's total_amount is at least 7000, and closing
\* in every other case (read on the turns in which the transition function
\* returns a state; on a profile whose debt_info does not parse it raises).
C2_CardCountIffQualifyingAmount ==
    (fn.phase = "turn" /\ fn.state = DEBT_AMOUNT /\ ~ObjectionDetected(fn.analysis)
        /\ fn.next.ok) =>
        /\ (fn.next.state = CARD_COUNT) <=>
              (HasTotal(fn.ci) /\ Total(fn.ci) >= MIN_DEBT_AMOUNT)
        /\ fn.next.state # CARD_COUNT => fn.next.state = CLOSING

\* C3: in qualification without an objection, the next state is debt_amount
\* when handles_bills is extracted as true and bill_responsibility when it is
\* false or absent.
C3_QualificationBranch ==
    (Determined /\ fn.state = QUALIFICATION /\ ~ObjectionDetected(fn.analysis)) =>
        fn.next = IF Has(fn.analysis, "handles_bills") /\ fn.analysis["handles_bills"]
                  THEN Goto(DEBT_AMOUNT)
                  ELSE Goto(BILL_RESPONSIBILITY)

C3_Witness ==
    /\ Determined /\ fn.state = QUALIFICATION /\ ~ObjectionDetected(fn.analysis)
    /\ ~Has(fn.analysis, "handles_bills")
    /\ fn.next = Goto(BILL_RESPONSIBILITY)

\* C6 as stated: from transfer and from closing the next state is ended for
\* every extraction.
C6_TerminalAlwaysEnds ==
    (Determined /\ fn.state \in {TRANSFER, CLOSING}) => fn.next = Goto(ENDED)

\* C6 amended: from transfer and from closing the next state is ended for
\* every extraction that does not report an objection; an extraction with
\* objection_detected = true moves the call to objection_handling from these
\* two states as from any other.
C6_TerminalEndsUnlessObjection ==
    (Determined /\ fn.state \in {TRANSFER, CLOSING}) =>
        fn.next = IF ObjectionDetected(fn.analysis)
                  THEN Goto(OBJECTION_HANDLING)
                  ELSE Goto(ENDED)

C6_Witness ==
    /\ Determined /\ fn.state = CLOSING /\ ~ObjectionDetected(fn.analysis)
    /\ Has(fn.analysis, "objection_detected")
    /\ fn.next = Goto(ENDED)

----------------------------------------------------------------------------
(* Properties of a whole call, checked under Spec *)

current_state == Get(callTable.item, "current_state", GREETING)

\* C4: whenever the stored current_state becomes ended, the state stored
\* immediately before was transfer or closing.
C4_EndedOnlyAfterTransferOrClosing ==
    [][(callTable.exists /\ current_state # ENDED /\ current_state' = ENDED)
        => current_state \in {TRANSFER, CLOSING}]_vars

C4_Witness ==
    /\ callTable.exists /\ current_state = ENDED
    /\ turn.prev = CLOSING /\ turn.next = ENDED

\* C5: once the stored current_state is ended, handling further transcripts
\* leaves it ended.
C5_EndedIsTerminal ==
    [][(callTable.exists /\ current_state = ENDED) => current_state' = ENDED]_vars

\* C7: a turn in state S that moves the call to objection_handling because
\* objection_detected is true leaves previous_state = S on the stored profile.
C7_PreviousStateRecorded ==
    (callTable.exists /\ turn.next = OBJECTION_HANDLING
        /\ ObjectionDetected(turn.analysis)) =>
        /\ ~customerTable.none
        /\ Has(customerTable.d, "previous_state")
        /\ customerTable.d["previous_state"] = turn.prev

----------------------------------------------------------------------------
(* Circuit breaker properties, checked under SpecCB *)

\* C8: a request made with the breaker CLOSED leaves it OPEN when, and only
\* when, it is the 5th failure in a row, i.e. the 5th failure with no
\* successful request in between.
C8_OpensOnFifthConsecutiveFailure ==
    (req.phase = "done" /\ req.pre.status = "CLOSED") =>
        ((circuit.status = "OPEN") <=>
            (req.outcome = "failure" /\ req.preStreak + 1 = threshold))

\* C9 as stated: a request made with the breaker OPEN is rejected without an
\* HTTP attempt and without touching the breaker if fewer than 60 seconds have
\* passed since the last failure, and passes the gate (HALF-OPEN) as soon as
\* 60 seconds have passed.
C9_GateOpensAtSixtySeconds ==
    (req.phase # "none" /\ req.pre.status = "OPEN") =>
        IF req.at - req.pre.last_failure >= timeout
        THEN req.outcome # "rejected" /\ req.gated = "HALF-OPEN" /\ (creds => req.http)
        ELSE req.outcome = "rejected" /\ ~req.http /\ circuit = req.pre

\* C9 amended: a request made with the breaker OPEN is rejected with the
\* "service unavailable" result, without an HTTP attempt and without touching
\* the failure count or the last-failure time, as long as no more than 60
\* seconds have passed since the last failure; once more than 60 seconds have
\* passed the request moves the breaker to HALF-OPEN and is attempted.
C9_GateOpensAfterSixtySeconds ==
    (req.phase # "none" /\ req.pre.status = "OPEN") =>
        IF req.at - req.pre.last_failure > timeout
        THEN req.outcome # "rejected" /\ req.gated = "HALF-OPEN" /\ (creds => req.http)
        ELSE /\ req.outcome = "rejected" /\ req.result = "circuit_open"
             /\ ~req.http /\ circuit = req.pre

C9_Witness ==
    /\ req.phase = "done" /\ req.pre.status = "OPEN"
    /\ req.outcome = "rejected" /\ req.at > req.pre.last_failure

\* C10: the request that found the breaker HALF-OPEN is attempted; if it
\* succeeds the breaker is CLOSED with a failure count of 0, if it fails the
\* breaker is OPEN again and rejects requests for 60 seconds from that failure.
C10_HalfOpenTrial ==
    (req.phase = "done" /\ req.gated = "HALF-OPEN") =>
        /\ req.outcome \in {"success", "failure"}
        /\ creds => req.http
        /\ req.outcome = "success" =>
              circuit.status = "CLOSED" /\ circuit.failures = 0
        /\ req.outcome = "failure" =>
              /\ circuit.status = "OPEN"
              /\ circuit.last_failure = req.doneAt
              /\ circuit_gate(circuit, req.doneAt + timeout).rejected
              /\ ~circuit_gate(circuit, req.doneAt + timeout + 1).rejected

C10_Witness ==
    /\ req.phase = "done" /\ req.gated = "HALF-OPEN"
    /\ req.outcome = "success" /\ req.http

----------------------------------------------------------------------------
(* Circuit breaker under concurrent callers, checked under SpecMT *)

\* C11: after the timeout exactly one trial request is let through: no request
\* in progress was sent while the trial request was unanswered.
C11_SingleTrialRequest ==
    \A t \in Callers : callers[t].pc = "inflight" => ~callers[t].duringTrial

----------------------------------------------------------------------------
(* Token cache, checked under SpecTok *)

\* Seconds left before the expiry of the token cached for the scope of the
\* last token request, when the request was made.
Remaining == tokenCall.pre[tokenCall.scope].expiry - tokenCall.at

HadToken == tokenCall.made /\ tokenCall.pre[tokenCall.scope].present

FreshToken == [present |-> TRUE, nbf |-> tokenCall.at,
               expiry |-> tokenCall.at + TokenLifetime]

\* C12: per scope, a cached token is returned unchanged while at least 300
\* seconds remain before its expiry, and a request made when fewer than 300
\* seconds remain mints a fresh token that replaces the entry of that scope
\* and of no other.
C12_ReusedWhileBufferRemains ==
    HadToken =>
        /\ Remaining >= TokenBuffer =>
              /\ tokenCall.token = tokenCall.pre[tokenCall.scope]
              /\ tokenCache = tokenCall.pre
        /\ Remaining < TokenBuffer =>
              /\ tokenCall.token = FreshToken
              /\ tokenCache = [tokenCall.pre EXCEPT ![tokenCall.scope] = FreshToken]

\* C12 amended: per scope, a cached token is returned unchanged while more
\* than 300 seconds remain before its expiry; a request made when 300 seconds
\* or fewer remain mints a fresh token (valid from the time of the request,
\* for 3600 seconds) that replaces the entry of that scope and of no other.
C12_ReusedWhileMoreThanBufferRemains ==
    HadToken =>
        /\ Remaining > TokenBuffer =>
              /\ tokenCall.ok
              /\ tokenCall.token = tokenCall.pre[tokenCall.scope]
              /\ tokenCache = tokenCall.pre
        /\ Remaining <= TokenBuffer =>
              /\ tokenCall.ok
              /\ tokenCall.token = FreshToken
              /\ tokenCache = [tokenCall.pre EXCEPT ![tokenCall.scope] = FreshToken]

\* A token minted at 0 is replaced by the request made 59 minutes later,
\* while another scope keeps the token it got at 10 minutes.
C12_Witness ==
    /\ HadToken
    /\ tokenCall.pre[tokenCall.scope].nbf = 0
    /\ tokenCall.at = 3540
    /\ tokenCall.token = FreshToken
    /\ \E o \in Scopes \ {tokenCall.scope} :
          tokenCache[o].present /\ tokenCache[o].nbf = 600

----------------------------------------------------------------------------
(* Hand-off, checked under Spec (C13) and SpecCall (C14) *)

\* The step is a turn that went through process_user_input.
ProcessedTurn ==
    turns' = turns + 1 /\ turn'.status \in {200, 500} /\ turn'.prev # "none"

\* C13: in every processed turn the hand-off trigger is invoked exactly once
\* if the computed next state is transfer, and not at all otherwise.
C13_HandoffExactlyOnTransfer ==
    [][ProcessedTurn =>
          handoffs' = handoffs + (IF turn'.next = TRANSFER THEN 1 ELSE 0)]_vars

----------------------------------------------------------------------------
(* NLU failure, checked under SpecFn *)

\* C15: when the NLU collaborator fails, the turn goes on with the default
\* extraction as with "no objection, no new slots": the merge succeeds and
\* leaves the profile unchanged, and the next state is the one the transition
\* function gives for the empty extraction.
C15_DefaultExtractionIsNeutral ==
    [][fn.analysis = DefaultAnalysis =>
          /\ fn'.phase = "merged" => fn'.mergeOk /\ fn'.ci = fn.ci
          /\ fn'.phase = "turn" =>
                fn'.next = determine_next_state(fn.state, EmptyDict, fn.ci)]_vars

----------------------------------------------------------------------------
(* Rejected transcript requests, checked under Spec *)

\* A step that leaves the record store and the voice client as they were.
NothingMutated ==
    UNCHANGED <<callTable, customerTable, transcripts, handoffs,
                circuit, tokenCache, req>>

\* The step is a transcript request, to either entry point.
TranscriptRequest == turns' = turns + 1

C17_InvalidRequestRejected ==
    [][(TranscriptRequest /\ (turn'.call_id = "" \/ turn'.transcript = ""))
          => /\ turn'.status = 400
             /\ turn'.next = "none" /\ turn'.prev = "none"
             /\ NothingMutated]_vars

C17_Witness ==
    /\ turn.status = 400 /\ turn.call_id = TheCall /\ turn.transcript = ""
    /\ callTable.exists /\ turns >= 2

----------------------------------------------------------------------------
(* The breaker's rejection as the engine sees it, checked under SpecSpeak *)

\* C18: when speak-text is rejected because the breaker is OPEN, the result
\* reaching the engine differs from a success and from a hard error, and
\* speak_response reports the failure, not success.
C18_CircuitOpenSurfaced ==
    (spoken.made /\ req.outcome = "rejected") =>
        /\ spoken.response \notin {api_result("success"), api_result("error"),
                                   api_result("error_code")}
        /\ ~spoken.returned

----------------------------------------------------------------------------
(* Persistence of a turn, checked under Spec *)

\* C19: after every turn processed for a known call with a non-empty
\* transcript (read on the turns whose transition was computed), the record
\* store holds the call record with current_state equal to the computed next
\* state and the profile with every slot merged in that turn.
C19_TurnPersisted ==
    (turn.prev # "none" /\ turn.next # "none") =>
        /\ callTable.exists /\ current_state = turn.next
        /\ customerTable = turn.ci

----------------------------------------------------------------------------
(* The turn result, checked under Spec *)

\* C20: every processed transcript returns a turn result whose next state is
\* the state the transition function computed, stored as current_state, and
\* whose response text is the one selected for that state; in qualification
\* with handles_bills = true and first_name = "John" extracted, the profile
\* gains both, the next state is debt_amount and the response its prompt.
C20_TurnResultReturned ==
    turn.prev # "none" =>
        /\ turn.status = 200
        /\ turn.next # "none" /\ current_state = turn.next
        /\ turn.bot_response = get_bot_response(turn.next, turn.ci, callTable.item).text
        /\ (turn.prev = QUALIFICATION
              /\ turn.analysis = [handles_bills |-> TRUE, first_name |-> "John"]) =>
                 /\ turn.next = DEBT_AMOUNT /\ turn.bot_response = DEBT_AMOUNT
                 /\ Get(turn.ci.d, "first_name", "") = "John"
                 /\ Get(turn.ci.d, "handles_bills", FALSE)

----------------------------------------------------------------------------
(* The call record over the life of a call, checked under SpecLife *)

call_state == Get(callTable.item, "call_state", "none")

\* The place of a call_state on the line initiated -> active -> ended|failed;
\* "initializing" is the value handle_webhook gives a record it creates.
CallStateRank(s) ==
    CASE s \in {"initiated", "initializing"} -> 0
      [] s = "active" -> 1
      [] s \in {"ended", "failed"} -> 2
      [] OTHER -> 0

\* C21: over every sequence and interleaving of set-up, inbound SIP handling,
\* turns and voice events on a call, the stored call_state only moves forward
\* along initiated -> active -> ended|failed: no step takes it back.
C21_CallStateForwardOnly ==
    [][(callTable.exists /\ callTable'.exists) =>
          CallStateRank(call_state') >= CallStateRank(call_state)]_vars

\* C22: in every stored call record, current_state is one of the values of
\* ConversationState, whichever handler wrote the record.
C22_CurrentStateInEnum ==
    callTable.exists =>
        /\ Has(callTable.item, "current_state")
        /\ callTable.item["current_state"] \in ConversationState

----------------------------------------------------------------------------
(* The slot merge of a turn, checked under SpecFn *)

\* The objection list of a profile, however it is stored.
Objections(customer_info) ==
    IF customer_info.none \/ ~Has(customer_info.d, "objections")
    THEN <<>>
    ELSE customer_info.d["objections"].val

IsPrefix(a, b) == Len(a) <= Len(b) /\ SubSeq(b, 1, Len(a)) = a

\* C23: the objection list of a profile is append-only: the merge of a turn
\* leaves it as it was or appends entries at its end; its length never
\* decreases and the earlier entries stay as they were, in place.
C23_ObjectionsAppendOnly ==
    [][fn'.phase = "merged" => IsPrefix(Objections(fn.ci), Objections(fn'.ci))]_vars

C23_Witness ==
    /\ fn.phase = "merged" /\ fn.mergeOk
    /\ Objections(fn.ci) = <<"no_time", "not_interested">>

\* The debt_info of a profile, empty when there is none to parse.
DebtInfo(customer_info) ==
    IF customer_info.none \/ ~Has(customer_info.d, "debt_info")
    THEN EmptyDict
    ELSE customer_info.d["debt_info"].val

\* C24: debt_info slots are sticky: the merge of a turn removes no filled
\* slot, and it changes a filled slot only to the non-empty value extracted in
\* that turn for that slot; an absent or empty extraction leaves every slot as
\* it was.
C24_DebtSlotsSticky ==
    [][fn'.phase = "merged" =>
          \A k \in DOMAIN DebtInfo(fn.ci) :
             /\ Has(DebtInfo(fn'.ci), k)
             /\ DebtInfo(fn'.ci)[k] # DebtInfo(fn.ci)[k] =>
                   /\ fn.state \in SlotStates /\ k = SlotKey(fn.state)
                   /\ Has(fn.analysis, AnalysisKey(fn.state))
                   /\ Truthy(AnalysisKey(fn.state), fn.analysis[AnalysisKey(fn.state)])
                   /\ DebtInfo(fn'.ci)[k] = fn.analysis[AnalysisKey(fn.state)]]_vars

\* A filled total_amount overwritten by a newer amount.
C24_Witness ==
    /\ fn.phase = "merged" /\ fn.mergeOk /\ fn.state = DEBT_AMOUNT
    /\ Get(fn.analysis, "debt_amount", 0) = 20000
    /\ DebtInfo(fn.ci) = [total_amount |-> 20000]

----------------------------------------------------------------------------
(* The outgoing message, checked under SpecFn *)

\* The states conversation_scripts.py has a script for.
ScriptedStates ==
    {GREETING, QUALIFICATION, BILL_RESPONSIBILITY, DEBT_AMOUNT, CARD_COUNT,
     PAYMENT_STATUS, EMPLOYMENT, MONTHLY_PAYMENT, QUALIFICATION_COMPLETE,
     INTENT_CHECK, TRANSFER, CLOSING}

\* C25: for every state but objection_handling the outgoing message is the
\* script bound to that state; a turn whose next state is
\* qualification_complete gets the qualification-complete script.
C25_ScriptBoundToState ==
    (fn.phase = "responded" /\ fn.next.state \in ScriptedStates) =>
        fn.response = [ok |-> TRUE, text |-> fn.next.state]

----------------------------------------------------------------------------
(* The objection type on the call record, checked under Spec *)

\* C26: the call record carries an objection_type only while the call is in
\* objection_handling. After every turn whose transition was computed: if the
\* stored current_state is not objection_handling the record has no
\* objection_type, and if the turn entered objection_handling the
\* objection_type is the objection extracted in that turn.
C26_ObjectionTypeOnlyInObjection ==
    (callTable.exists /\ turn.prev # "none" /\ turn.next # "none") =>
        /\ current_state # OBJECTION_HANDLING => ~Has(callTable.item, "objection_type")
        /\ (current_state = OBJECTION_HANDLING /\ turn.prev # OBJECTION_HANDLING) =>
              /\ Has(callTable.item, "objection_type")
              /\ Has(turn.analysis, "objection")
              /\ callTable.item["objection_type"] = turn.analysis["objection"]

----------------------------------------------------------------------------
(* The call log, checked under Spec *)

\* The turn records of the stored call log, oldest first.
CallLog(table) ==
    IF table.exists /\ Has(table.item, "call_logs")
    THEN json_loads(table.item["call_logs"])
    ELSE <<>>

\* C27: with the turns of a call processed one at a time, each processed turn
\* appends exactly one turn record at the end of the call log and keeps the
\* records appended earlier as they were, in the same order.
C27_OneLogRecordPerTurn ==
    [][ProcessedTurn =>
          /\ Len(CallLog(callTable')) = Len(CallLog(callTable)) + 1
          /\ IsPrefix(CallLog(callTable), CallLog(callTable'))]_vars

----------------------------------------------------------------------------
(* Retries at the transport, checked under SpecRetry *)

Attempted == req.phase = "done" /\ req.http

LastAttempt == req.attempts[Len(req.attempts)]

\* The breaker as a failure recorded at the time of the request leaves it.
FailureRecorded ==
    /\ req.outcome = "failure" /\ req.result # "success"
    /\ circuit.failures = req.pre.failures + 1
    /\ circuit.last_failure = req.at

\* The breaker with no failure recorded by the request.
NoFailureRecorded ==
    /\ req.outcome = "success" /\ req.result = "success"
    /\ circuit.failures <= req.pre.failures
    /\ circuit.last_failure = req.pre.last_failure

\* What holds of the retries whatever a timeout does: at most 3 retries, made
\* only after transient answers; success without a recorded failure when an
\* attempt within the budget succeeds; a recorded failure when the budget is
\* used up.
RetriedWithinBudget ==
    /\ Len(req.attempts) \in 1..(total + 1)
    /\ \A i \in 1..(Len(req.attempts) - 1) : Transient(req.attempts[i])
    /\ IsSuccess(LastAttempt) => NoFailureRecorded
    /\ (Len(req.attempts) = total + 1 /\ Transient(LastAttempt)) => FailureRecorded

\* C28 as stated: a request that meets a transient status is retried at most 3
\* times; it succeeds with no breaker failure if an attempt within the budget
\* succeeds; it returns a failure, counted by the breaker, if the budget is
\* used up or the 10-second timeout is hit.
C28_FailsWhenTimeoutHit ==
    Attempted =>
        /\ RetriedWithinBudget
        /\ (\E i \in 1..Len(req.attempts) : req.attempts[i].kind = "timeout") =>
              FailureRecorded

\* C28 amended: an attempt that gets a transient status (429, 502, 503, 504)
\* or hits the 10-second timeout is retried, at most 3 times in all; if an
\* attempt within the budget succeeds the caller gets success and no breaker
\* failure is recorded, a timeout on an earlier attempt notwithstanding; if
\* the budget is used up the operation returns a failure result that the
\* breaker counts as one failure.
C28_TimeoutRetriedWithinBudget ==
    Attempted =>
        /\ RetriedWithinBudget
        /\ \A i \in 1..Len(req.attempts) :
              (req.attempts[i].kind = "timeout" /\ i <= total) => Len(req.attempts) > i

\* An attempt timed out, a retry answered 503, and the next one succeeded.
C28_Witness ==
    /\ Attempted
    /\ req.attempts = <<[kind |-> "timeout", code |-> 0], [kind |-> "status", code |-> 503],
                        [kind |-> "status", code |-> 200]>>
    /\ NoFailureRecorded

----------------------------------------------------------------------------
(* The linear part of the progression, checked under SpecFn *)

LinearStates ==
    {GREETING, CARD_COUNT, PAYMENT_STATUS, EMPLOYMENT, MONTHLY_PAYMENT,
     QUALIFICATION_COMPLETE}

LinearNext(state) ==
    CASE state = GREETING -> QUALIFICATION
      [] state = CARD_COUNT -> PAYMENT_STATUS
      [] state = PAYMENT_STATUS -> EMPLOYMENT
      [] state = EMPLOYMENT -> MONTHLY_PAYMENT
      [] state = MONTHLY_PAYMENT -> QUALIFICATION_COMPLETE
      [] state = QUALIFICATION_COMPLETE -> INTENT_CHECK

\* C29: with no objection detected, greeting -> qualification, card_count ->
\* payment_status -> employment -> monthly_payment -> qualification_complete
\* -> intent_check are taken for every extraction and every profile.
C29_LinearTransitionsUnconditional ==
    (Determined /\ fn.state \in LinearStates /\ ~ObjectionDetected(fn.analysis)) =>
        fn.next = Goto(LinearNext(fn.state))

\* employment -> monthly_payment on an extraction that carries no employment
\* status, with no profile at all.
C29_Witness ==
    /\ Determined /\ fn.state = EMPLOYMENT /\ fn.ci = NoneInfo
    /\ fn.analysis = [objection_detected |-> FALSE]
    /\ fn.next = Goto(MONTHLY_PAYMENT)

\* C30: in bill_responsibility with no objection detected, the next state is
\* transfer if call_transfer_accepted is true, closing if it is false, and
\* debt_amount if the extraction does not carry it.
C30_BillResponsibilityBranch ==
    (Determined /\ fn.state = BILL_RESPONSIBILITY /\ ~ObjectionDetected(fn.analysis)) =>
        fn.next = IF ~Has(fn.analysis, "call_transfer_accepted") THEN Goto(DEBT_AMOUNT)
                  ELSE IF fn.analysis["call_transfer_accepted"] THEN Goto(TRANSFER)
                  ELSE Goto(CLOSING)

C30_Witness ==
    /\ Determined /\ fn.state = BILL_RESPONSIBILITY /\ ~ObjectionDetected(fn.analysis)
    /\ Has(fn.analysis, "call_transfer_accepted")
    /\ ~fn.analysis["call_transfer_accepted"]
    /\ fn.next = Goto(CLOSING)

----------------------------------------------------------------------------
(* Whole turns applied to bounded inputs, checked under SpecFn *)

\* The turn result of lines 339-344 is returned only by a turn that did not
\* raise; its intent_verified is read from the call record.
TurnResultReturned == fn.phase = "processed" /\ fn.result.ok

\* C31: a turn in intent_check with no objection detected computes transfer
\* if intent_confirmed is true and closing otherwise; when it is transfer the
\* call record carries intent_verified = true and the turn result, with
\* intent_verified = true, is returned.
C31_IntentCheckBranch ==
    (fn.phase = "processed" /\ fn.state = INTENT_CHECK
        /\ ~ObjectionDetected(fn.analysis)) =>
        /\ fn.result.next = IF Has(fn.analysis, "intent_confirmed")
                                /\ fn.analysis["intent_confirmed"]
                             THEN TRANSFER ELSE CLOSING
        /\ fn.result.next = TRANSFER =>
              /\ Get(fn.result.cd, "intent_verified", FALSE)
              /\ TurnResultReturned

\* C32: in objection_handling with no new objection detected, the next state
\* is the profile's previous_state when objection_handled is true
\* (qualification when the profile records none), and closing when
\* objection_handled is false or absent.
C32_ObjectionHandlingBranch ==
    (Determined /\ fn.state = OBJECTION_HANDLING /\ ~ObjectionDetected(fn.analysis)) =>
        fn.next = IF Has(fn.analysis, "objection_handled")
                     /\ fn.analysis["objection_handled"]
                  THEN Goto(Get(fn.ci.d, "previous_state", QUALIFICATION))
                  ELSE Goto(CLOSING)

\* The stored debt_info attribute of a profile, as it is stored.
StoredDebtInfo(customer_info) == Get(customer_info.d, "debt_info", "absent")

\* C33: state-scoped slots are merged only in their own state: a turn changes
\* a debt_info slot only when the current state is the state that owns the
\* slot and the extraction carries that state's key; in every state that owns
\* no slot, and for every extraction without the state's own key, the turn
\* leaves debt_info as it was.
C33_SlotsMergedOnlyInOwnState ==
    [][fn'.phase \in {"merged", "processed"} =>
          LET after == IF fn'.phase = "merged" THEN fn'.ci ELSE fn'.result.ci
          IN /\ \A k \in DOMAIN DebtInfo(after) :
                   (~Has(DebtInfo(fn.ci), k) \/ DebtInfo(after)[k] # DebtInfo(fn.ci)[k]) =>
                      /\ fn.state \in SlotStates /\ k = SlotKey(fn.state)
                      /\ Has(fn.analysis, AnalysisKey(fn.state))
             /\ (fn.state \notin SlotStates
                   \/ ~Has(fn.analysis, AnalysisKey(fn.state))) =>
                   StoredDebtInfo(after) = StoredDebtInfo(fn.ci)]_vars

\* A debt amount extracted in card_count: the merge succeeds and the profile
\* keeps the amount it had.
C33_Witness ==
    /\ fn.phase = "merged" /\ fn.mergeOk /\ fn.state = CARD_COUNT
    /\ Get(fn.analysis, "debt_amount", 0) = 7000
    /\ DebtInfo(fn.ci) = [total_amount |-> 5000]

\* C34: for every sparse extraction the turn completes and returns a turn
\* result: no absent key makes the turn fail.
C34_SparseExtractionCompletes ==
    fn.phase = "processed" => fn.result.ok /\ fn.result.stage = "returned"

----------------------------------------------------------------------------
(* The breaker's status and counter, checked under SpecCB *)

\* C36: with requests served one at a time, in every reachable state a CLOSED
\* breaker has a failure counter below the threshold 5, and an OPEN or
\* HALF-OPEN breaker has a failure counter of at least 5.
C36_StatusMatchesCounter ==
    /\ circuit.status \in {"CLOSED", "OPEN", "HALF-OPEN"}
    /\ circuit.status = "CLOSED" => circuit.failures < threshold
    /\ circuit.status \in {"OPEN", "HALF-OPEN"} => circuit.failures >= threshold

\* The trial request of a breaker that opened is in progress.
C36_Witness ==
    /\ circuit.status = "HALF-OPEN" /\ circuit.failures >= threshold
    /\ req.phase = "inflight"

----------------------------------------------------------------------------
(* The breaker's counter under concurrent callers, checked under SpecRace *)

\* C35: the circuit-breaker update is race-free: every failure a caller
\* records raises the failure counter by one, whatever the other callers do
\* in the meantime.
C35_EveryFailureCounted ==
    [][(\E t \in Callers : callers[t].pc = "failed" /\ callers'[t].pc = "idle")
          => circuit'.failures = circuit.failures + 1]_vars

----------------------------------------------------------------------------
(* The two writes of a turn, checked under Spec *)

\* C37: a turn writes the call record and the profile together or not at
\* all: whenever the stored call record has been advanced to the next state a
\* turn computed, the stored profile holds the profile changes of that turn.
C37_RecordAndProfileTogether ==
    (turn.prev # "none" /\ callTable.exists /\ turn.next # "none"
        /\ current_state = turn.next /\ turn.next # turn.prev) =>
        customerTable = turn.ci

----------------------------------------------------------------------------
(* The verdict of the hand-off, checked under Spec *)

----------------------------------------------------------------------------
(* Progress of a call without objections, checked under SpecProgress *)

\* The call has been in state ended: it is there now, or a turn was processed
\* there and left its record in the call log.
WasEnded ==
    \/ current_state = ENDED
    \/ \E i \in DOMAIN CallLog(callTable) : CallLog(callTable)[i].state = ENDED

\* C39: with no extraction reporting an objection, a call that starts in
\* greeting has reached current_state ended once 11 turns have been processed,
\* whatever the extractions are.
C39_EndedWithinElevenTurns ==
    (callTable.exists /\ turns = 11) => WasEnded

----------------------------------------------------------------------------
(* Setting up the conversation, checked under SpecLife *)

\* C40: initialize_conversation creates the room exactly when it does not
\* exist: create_room is called if get_room did not find the room (an error
\* answer, an exception or the breaker's rejection) and skipped if it found
\* it; in both cases the voice pipeline is set up and current_state is stored
\* as greeting.
C40_RoomCreatedIffMissing ==
    [][(jobs["webhook"].pc = "read" /\ jobs'["webhook"].pc = "idle") =>
          /\ room'.checked
          /\ room'.created <=> (room'.room_info # api_result("success"))
          /\ room'.pipeline
          /\ current_state' = GREETING]_vars

====
